---- MODULE Spec2Model ----
(***************************************************************************)
(* Model of st2actions/policies/retry.py: ExecutionRetryPolicyApplicator.  *)
(*                                                                         *)
(* A live action's context is a Python dict that holds nested dicts, so    *)
(* contexts live in a heap of dict objects: what two contexts share is     *)
(* then a fact of the state.  apply_after is one action; a retry that      *)
(* eventlet.spawn_after defers is a task that fires in a later action.     *)
(***************************************************************************)
EXTENDS Integers, FiniteSets, Sequences, TLC

\* ------------------------------------------------------------- bounds
MaxExec == 4        \* live action ids 1..MaxExec
MaxRetry == 2       \* max_retry_count and a first execution's stored
                    \* retry_count are drawn from 0..MaxRetry
MaxDelay == 2       \* delay is drawn from -1..MaxDelay, and None
MaxMutations == 1   \* writes of other components into a context
MaxEvals == 2       \* times apply_after is handed the same live action

\* ---------------------------------------------------------- constants
LIVEACTION_STATUS_FAILED == "failed"
LIVEACTION_STATUS_TIMED_OUT == "timeout"
VALID_RETRY_STATUSES == {LIVEACTION_STATUS_FAILED, LIVEACTION_STATUS_TIMED_OUT}
RetryOnPolicy == [FAILURE |-> "failure", TIMEOUT |-> "timeout"]
\* statuses a finished live action can have
TerminalStatuses == VALID_RETRY_STATUSES \cup {"succeeded", "canceled"}
\* the "small delay (0.1 seconds)" of the discarded closure, in tenths of a
\* second, the unit of every delay of the model
SmallDelay == 1
PolicyRef == "core.retry"
\* a delay argument: None, or a number of tenths of a second
NoneDelay == [none |-> TRUE, n |-> 0]
NumDelay(i) == [none |-> FALSE, n |-> i]

\* ------------------------------------------------------ Python values
Slots == {"top", "parent", "policies", "retry", "extra"}
Keys == {"parent", "policies", "extra", "retry", "other", "retry_count",
         "applied_policy", "retried_liveaction_id", "execution_id", "note"}
Ids == 1..MaxExec
Addr == Ids \X Slots
NoAddr == <<0, "top">>

Absent == [kind |-> "absent", n |-> 0, s |-> "", ref |-> NoAddr]
NoneV == [kind |-> "none", n |-> 0, s |-> "", ref |-> NoAddr]
IntV(i) == [kind |-> "int", n |-> i, s |-> "", ref |-> NoAddr]
StrV(str) == [kind |-> "str", n |-> 0, s |-> str, ref |-> NoAddr]
RefV(a) == [kind |-> "ref", n |-> 0, s |-> "", ref |-> a]
EmptyDict == [k \in Keys |-> Absent]
IsEmptyDict(d) == \A k \in Keys : d[k].kind = "absent"

\* --------------------------------------------------------- dict access
\* The dict a path of keys leads to from the context dict at address a,
\* NoAddr when the path does not lead to a dict.
Reach(h, a, s) ==
    IF s = "top" THEN a
    ELSE IF s = "retry"
    THEN LET p == h[a]["policies"] IN
         IF p.kind = "ref" /\ h[p.ref]["retry"].kind = "ref"
         THEN h[p.ref]["retry"].ref ELSE NoAddr
    ELSE IF h[a][s].kind = "ref" THEN h[a][s].ref ELSE NoAddr

\* A dict's entries with the identity of the dicts it holds left out.
Strip(d) == [k \in Keys |-> IF d[k].kind = "ref" THEN RefV(NoAddr) ELSE d[k]]

\* The value of a context: the entries of every dict it holds, by path.
View(h, a) ==
    [s \in Slots |-> IF Reach(h, a, s) = NoAddr THEN EmptyDict
                     ELSE Strip(h[Reach(h, a, s)])]

\* The dict objects a context is made of.
Cells(h, a) == {Reach(h, a, s) : s \in Slots} \ {NoAddr}

\* v.get(k, {}) and v.get(k, 0): Absent stands for the default; a value
\* that is no dict has no get, which raises AttributeError.
HasGet(v) == v.kind \in {"absent", "ref"}
GetFrom(h, v, k) == IF v.kind = "ref" THEN h[v.ref][k] ELSE Absent

\* fast_deepcopy_dict(context): a copy of every dict of the context in
\* new objects, owned by the live action the copy is for.
Repoint(d, owner) ==
    [k \in Keys |-> IF d[k].kind = "ref" THEN RefV(<<owner, k>>) ELSE d[k]]

FastDeepcopyDict(h, a, owner) ==
    [x \in Addr |->
        IF x[1] = owner
        THEN IF Reach(h, a, x[2]) = NoAddr THEN EmptyDict
             ELSE Repoint(h[Reach(h, a, x[2])], owner)
        ELSE h[x]]

\* ---------------------------------------------------------- __init__
DelayOrZero(d) == IF d.none \/ d.n = 0 THEN 0 ELSE d.n

NewApplicator(retry_on, max_retry_count, delay) ==
    [policy_ref |-> PolicyRef, retry_on |-> retry_on,
     max_retry_count |-> max_retry_count, delay |-> DelayOrZero(delay)]

\* ------------------------------------------------- the pure helpers
\* (mutant) the comparison with {} the wrong way round
IsLiveActionPartOfWorkflowAction_EqEmpty(h, c) ==
    LET parent == h[c]["parent"] IN
    IF parent.kind = "absent" THEN TRUE
    ELSE parent.kind = "ref" /\ IsEmptyDict(h[parent.ref])

IsLiveActionPartOfWorkflowAction(h, c) ==
    LET parent == h[c]["parent"] IN
    IF parent.kind = "absent" THEN FALSE
    ELSE /\ parent.kind # "none"
         /\ ~(parent.kind = "ref" /\ IsEmptyDict(h[parent.ref]))

\* [raised, val]: raised when a get is called on a value that is no dict.
GetLiveActionRetryCount(h, c) ==
    LET policies == h[c]["policies"]
        retry == GetFrom(h, policies, "retry")
        count == GetFrom(h, retry, "retry_count")
    IN  IF ~HasGet(policies) \/ ~HasGet(retry)
        THEN [raised |-> TRUE, val |-> Absent]
        ELSE [raised |-> FALSE,
              val |-> IF count.kind = "absent" THEN IntV(0) ELSE count]

\* (mutant) spawn_after is given the small delay in both branches
ReRunClosure_AlwaysSmallDelay(delay) ==
    IF delay > 0
    THEN [kind |-> "spawn_after", wait |-> SmallDelay]
    ELSE [kind |-> "direct", wait |-> 0]

\* (mutant) the closure built first is not replaced
ReRunClosure_SmallDelay(delay) ==
    IF delay > 0
    THEN [kind |-> "spawn_after", wait |-> delay]
    ELSE [kind |-> "spawn_after", wait |-> SmallDelay]

\* The closure apply_after calls on a match.
ReRunClosure(delay) ==
    IF delay > 0
    THEN [kind |-> "spawn_after", wait |-> delay]
    ELSE LET discarded == [kind |-> "spawn_after", wait |-> SmallDelay]
             kept == [kind |-> "direct", wait |-> 0]
         IN  kept

\* (mutant) the count is the highest any live action holds, as if the
\* applicator kept one count for all of them
Decide_SharedCount(h, c, st, pol) ==
    LET counts == {h[x]["retry_count"].n : x \in {y \in DOMAIN h : y[2] = "retry"}}
        shared == CHOOSE n \in counts : \A o \in counts : o <= n
    IN  IF IsLiveActionPartOfWorkflowAction(h, c) THEN "workflow_step"
        ELSE IF st \notin VALID_RETRY_STATUSES THEN "invalid_status"
        ELSE IF shared + 1 > pol.max_retry_count THEN "max_retries"
        ELSE IF st = LIVEACTION_STATUS_FAILED /\ pol.retry_on = RetryOnPolicy.FAILURE
             THEN "matched_failure"
        ELSE IF st = LIVEACTION_STATUS_TIMED_OUT /\ pol.retry_on = RetryOnPolicy.TIMEOUT
             THEN "matched_timeout"
        ELSE "no_match"

\* (mutant) the ceiling is checked before the status
Decide_CeilingFirst(h, c, st, pol) ==
    LET rc == GetLiveActionRetryCount(h, c) IN
    IF IsLiveActionPartOfWorkflowAction(h, c) THEN "workflow_step"
    ELSE IF rc.raised \/ rc.val.kind # "int" THEN "error"
    ELSE IF rc.val.n + 1 > pol.max_retry_count THEN "max_retries"
    ELSE IF st \notin VALID_RETRY_STATUSES THEN "invalid_status"
    ELSE IF st = LIVEACTION_STATUS_FAILED /\ pol.retry_on = RetryOnPolicy.FAILURE
         THEN "matched_failure"
    ELSE IF st = LIVEACTION_STATUS_TIMED_OUT /\ pol.retry_on = RetryOnPolicy.TIMEOUT
         THEN "matched_timeout"
    ELSE "no_match"

\* (mutant) the ceiling counts the attempts made, not the next one
Decide_OffByOne(h, c, st, pol) ==
    LET rc == GetLiveActionRetryCount(h, c) IN
    IF IsLiveActionPartOfWorkflowAction(h, c) THEN "workflow_step"
    ELSE IF rc.raised THEN "error"
    ELSE IF st \notin VALID_RETRY_STATUSES THEN "invalid_status"
    ELSE IF rc.val.kind # "int" THEN "error"
    ELSE IF rc.val.n > pol.max_retry_count THEN "max_retries"
    ELSE IF st = LIVEACTION_STATUS_FAILED /\ pol.retry_on = RetryOnPolicy.FAILURE
         THEN "matched_failure"
    ELSE IF st = LIVEACTION_STATUS_TIMED_OUT /\ pol.retry_on = RetryOnPolicy.TIMEOUT
         THEN "matched_timeout"
    ELSE "no_match"

\* (mutant) retry_on is not looked at
Decide_AnyTrigger(h, c, st, pol) ==
    LET rc == GetLiveActionRetryCount(h, c) IN
    IF IsLiveActionPartOfWorkflowAction(h, c) THEN "workflow_step"
    ELSE IF rc.raised THEN "error"
    ELSE IF st \notin VALID_RETRY_STATUSES THEN "invalid_status"
    ELSE IF rc.val.kind # "int" THEN "error"
    ELSE IF rc.val.n + 1 > pol.max_retry_count THEN "max_retries"
    ELSE IF st = LIVEACTION_STATUS_FAILED THEN "matched_failure"
    ELSE "matched_timeout"

\* The branch apply_after takes.
Decide(h, c, st, pol) ==
    LET rc == GetLiveActionRetryCount(h, c) IN
    IF IsLiveActionPartOfWorkflowAction(h, c) THEN "workflow_step"
    ELSE IF rc.raised THEN "error"
    ELSE IF st \notin VALID_RETRY_STATUSES THEN "invalid_status"
    ELSE IF rc.val.kind # "int" THEN "error"
    ELSE IF rc.val.n + 1 > pol.max_retry_count THEN "max_retries"
    ELSE IF st = LIVEACTION_STATUS_FAILED /\ pol.retry_on = RetryOnPolicy.FAILURE
         THEN "matched_failure"
    ELSE IF st = LIVEACTION_STATUS_TIMED_OUT /\ pol.retry_on = RetryOnPolicy.TIMEOUT
         THEN "matched_timeout"
    ELSE "no_match"

Matched == {"matched_failure", "matched_timeout"}

\* (mutant) the count is carried over as it is
SetRetryRecord_NoIncrement(h, nc, owner, pol, count, id) ==
    LET pa == <<owner, "policies">>
        ra == <<owner, "retry">>
        record == [EmptyDict EXCEPT
                      !["applied_policy"] = StrV(pol.policy_ref),
                      !["retry_count"] = IntV(count),
                      !["retried_liveaction_id"] = StrV(ToString(id))]
    IN  [x \in Addr |->
            IF x = ra THEN record
            ELSE IF x = pa THEN [EmptyDict EXCEPT !["retry"] = RefV(ra)]
            ELSE IF x = nc THEN [h[nc] EXCEPT !["policies"] = RefV(pa)]
            ELSE h[x]]

\* new_context of _re_run_live_action: the entries it sets in the dict at
\* nc, in new dict objects owned by the live action being built.
SetRetryRecord(h, nc, owner, pol, count, id) ==
    LET pa == <<owner, "policies">>
        ra == <<owner, "retry">>
        record == [EmptyDict EXCEPT
                      !["applied_policy"] = StrV(pol.policy_ref),
                      !["retry_count"] = IntV(count + 1),
                      !["retried_liveaction_id"] = StrV(ToString(id))]
    IN  [x \in Addr |->
            IF x = ra THEN record
            ELSE IF x = pa THEN [EmptyDict EXCEPT !["retry"] = RefV(ra)]
            ELSE IF x = nc THEN [h[nc] EXCEPT !["policies"] = RefV(pa)]
            ELSE h[x]]

\* (mutant) no copy: the retry record is written into the context itself
ReRunNewContext_NoCopy(h, c, owner, pol, count, id) ==
    [heap |-> SetRetryRecord(h, c, owner, pol, count, id), top |-> c]

\* (mutant) a shallow copy: a new context dict holding the same dicts
ReRunNewContext_ShallowCopy(h, c, owner, pol, count, id) ==
    LET nc == <<owner, "top">>
        copied == [x \in Addr |-> IF x = nc THEN h[c]
                                  ELSE IF x[1] = owner THEN EmptyDict ELSE h[x]]
    IN  [heap |-> SetRetryRecord(copied, nc, owner, pol, count, id), top |-> nc]

\* [heap, top]: the heap once new_context is built, and where it is.
ReRunNewContext(h, c, owner, pol, count, id) ==
    LET nc == <<owner, "top">> IN
    [heap |-> SetRetryRecord(FastDeepcopyDict(h, c, owner), nc, owner, pol, count, id),
     top |-> nc]

\* ---------------------------------------------------------------- state
VARIABLES
    policy,      \* the applicator: policy_ref, retry_on, max_retry_count, delay
    delayArg,    \* the delay argument __init__ was given
    heap,        \* Addr -> dict object
    ctx,         \* live action -> address of its context dict
    status,      \* live action -> "absent", "requested" or a terminal status
    payload,     \* live action -> [action, parameters]
    branch,      \* live action -> the branch apply_after took for it
    raised,      \* live action -> whether apply_after raised to its caller
    tasks,       \* deferred _re_run_live_action calls not yet fired
    calls,       \* the calls of action_services.request, in order
    nextId,      \* the id of the next live action the service creates
    mutations,   \* writes into contexts by other components so far
    returned,    \* live action -> what apply_after returned for it, 0 for nothing
    evals,       \* live action -> how many times apply_after ran for it
    lost         \* live actions whose scheduled task a crash took away

vars == <<policy, delayArg, heap, ctx, status, payload, branch, raised,
          tasks, calls, nextId, mutations, returned, evals, lost>>
\* ------------------------------------------------------------- Init
\* The contexts a first execution is given: parent absent, None, {} or a
\* reference to the workflow's execution; policies absent or a dict, with
\* or without an entry of another policy and a retry record; and a nested
\* dict of the user's under another key.
ParentShapes == {"absent", "none", "empty", "workflow"}
PolicyShapes ==
    {[policies |-> FALSE, other |-> FALSE, retry |-> FALSE, count |-> -1]}
    \cup [policies : {TRUE}, other : BOOLEAN, retry : {FALSE}, count : {-1}]
    \cup [policies : {TRUE}, other : BOOLEAN, retry : {TRUE}, count : -1..MaxRetry]

RootContext(id, par, pol, extra) ==
    LET top == [EmptyDict EXCEPT
                   !["parent"] = IF par = "absent" THEN Absent
                                 ELSE IF par = "none" THEN NoneV
                                 ELSE RefV(<<id, "parent">>),
                   !["policies"] = IF pol.policies THEN RefV(<<id, "policies">>)
                                   ELSE Absent,
                   !["extra"] = IF extra THEN RefV(<<id, "extra">>) ELSE Absent]
        parent == IF par = "workflow"
                  THEN [EmptyDict EXCEPT !["execution_id"] = StrV("abc")]
                  ELSE EmptyDict
        policies == [EmptyDict EXCEPT
                        !["other"] = IF pol.other THEN IntV(1) ELSE Absent,
                        !["retry"] = IF pol.retry THEN RefV(<<id, "retry">>)
                                     ELSE Absent]
        retry == [EmptyDict EXCEPT
                     !["retry_count"] = IF pol.count >= 0 THEN IntV(pol.count)
                                        ELSE Absent]
        extra_ == [EmptyDict EXCEPT !["other"] = IntV(2)]
    IN  [s \in Slots |->
            CASE s = "top" -> top
              [] s = "parent" -> parent
              [] s = "policies" -> IF pol.policies THEN policies ELSE EmptyDict
              [] s = "retry" -> IF pol.retry THEN retry ELSE EmptyDict
              [] s = "extra" -> IF extra THEN extra_ ELSE EmptyDict]

Payloads == {[action |-> "core.local", parameters |-> "cmd=date"],
             [action |-> "core.remote", parameters |-> "hosts=h1"]}
NoPayload == [action |-> "", parameters |-> ""]

Root == 1

Init ==
    /\ \E retry_on \in {RetryOnPolicy.FAILURE, RetryOnPolicy.TIMEOUT},
          max_retry_count \in 0..MaxRetry,
          delay \in {NoneDelay} \cup {NumDelay(i) : i \in -1..MaxDelay} :
          /\ policy = NewApplicator(retry_on, max_retry_count, delay)
          /\ delayArg = delay
    /\ \E par \in ParentShapes, pol \in PolicyShapes, extra \in BOOLEAN :
          heap = [x \in Addr |-> IF x[1] = Root
                                 THEN RootContext(Root, par, pol, extra)[x[2]]
                                 ELSE EmptyDict]
    /\ ctx = [e \in Ids |-> IF e = Root THEN <<Root, "top">> ELSE NoAddr]
    /\ status = [e \in Ids |-> IF e = Root THEN "requested" ELSE "absent"]
    /\ \E pay \in Payloads :
          payload = [e \in Ids |-> IF e = Root THEN pay ELSE NoPayload]
    /\ branch = [e \in Ids |-> "pending"]
    /\ raised = [e \in Ids |-> FALSE]
    /\ tasks = {}
    /\ calls = <<>>
    /\ nextId = Root + 1
    /\ mutations = 0
    /\ returned = [e \in Ids |-> 0]
    /\ evals = [e \in Ids |-> 0]
    /\ lost = {}

\* ---------------------------------------------------------- actions
\* The runtime finishes live action e with status st.
Terminate(e, st) ==
    /\ status[e] = "requested"
    /\ status' = [status EXCEPT ![e] = st]
    /\ UNCHANGED <<policy, delayArg, heap, ctx, payload, branch, raised,
                   tasks, calls, nextId, mutations, returned, evals, lost>>

\* (mutant) the parameters are not handed on
NewLiveActionDB_NoParameters(action_ref, parameters, new_context) ==
    [action |-> action_ref, parameters |-> "", context |-> new_context]

\* LiveActionDB(action=action_ref, parameters=parameters, context=new_context)
NewLiveActionDB(action_ref, parameters, new_context) ==
    [action |-> action_ref, parameters |-> parameters, context |-> new_context]

\* (mutant) the count is read without its default of 0
ReRunRaises_NoDefault(e) ==
    LET rc == GetLiveActionRetryCount(heap, ctx[e]) IN
    \/ rc.raised \/ rc.val.kind # "int"
    \/ View(heap, ctx[e])["retry"]["retry_count"].kind = "absent"

\* _re_run_live_action(live_action_db) for live action e, called by
\* apply_after itself (sync) or by the task spawn_after started, waited
\* tenths of a second after it was scheduled; ok is the service's answer.
\* A call that raises before the request leaves the state as it is.
ReRunRaises(e) ==
    LET rc == GetLiveActionRetryCount(heap, ctx[e]) IN
    rc.raised \/ rc.val.kind # "int"

ReRunLiveAction(e, sync, waited, ok) ==
    LET rc == GetLiveActionRetryCount(heap, ctx[e])
        built == ReRunNewContext(heap, ctx[e], nextId, policy, rc.val.n, e)
        new_live_action_db ==
            NewLiveActionDB(payload[e].action, payload[e].parameters, built.top)
    IN  IF ReRunRaises(e)
        THEN UNCHANGED <<heap, calls, status, ctx, payload, nextId>>
        ELSE /\ heap' = built.heap
             /\ calls' = Append(calls,
                    [by |-> e, sync |-> sync, waited |-> waited,
                     accepted |-> ok, child |-> IF ok THEN nextId ELSE 0,
                     request |-> new_live_action_db,
                     count |-> rc.val,
                     before |-> View(heap, ctx[e]),
                     after |-> View(built.heap, ctx[e]),
                     view |-> View(built.heap, built.top)])
             \* action_services.request: the service creates the live
             \* action with what it was given, or rejects it and raises
             /\ IF ok
                THEN /\ status' = [status EXCEPT ![nextId] = "requested"]
                     /\ ctx' = [ctx EXCEPT ![nextId] = new_live_action_db.context]
                     /\ payload' = [payload EXCEPT ![nextId] =
                            [action |-> new_live_action_db.action,
                             parameters |-> new_live_action_db.parameters]]
                     /\ nextId' = nextId + 1
                ELSE UNCHANGED <<status, ctx, payload, nextId>>

\* super().apply_after(target) of the base applicator hands its target back.
SuperApplyAfter(target) == target

\* One run of apply_after(target) for the finished live action e.  A task
\* that spawn_after starts holds live_action_db itself; eval numbers the run
\* that scheduled it and seen is the context that run read.
Evaluate(e) ==
    /\ status[e] \in TerminalStatuses
    /\ Decide(heap, ctx[e], status[e], policy) \in Matched => nextId <= MaxExec
    /\ LET target == SuperApplyAfter(e)
           b == Decide(heap, ctx[target], status[target], policy)
           re_run_live_action == ReRunClosure(policy.delay)
       IN  /\ branch' = [branch EXCEPT ![e] = b]
           /\ evals' = [evals EXCEPT ![e] = @ + 1]
           /\ IF b \in Matched /\ re_run_live_action.kind = "direct"
              THEN \E ok \in BOOLEAN :
                      /\ ReRunLiveAction(target, TRUE, 0, ok)
                      /\ raised' = [raised EXCEPT ![e] = ~ok \/ ReRunRaises(target)]
                      /\ returned' = [returned EXCEPT ![e] =
                             IF ~ok \/ ReRunRaises(target) THEN 0 ELSE target]
                      /\ UNCHANGED tasks
              ELSE IF b \in Matched
              THEN /\ tasks' = tasks \cup
                          {[target |-> target, wait |-> re_run_live_action.wait,
                            elapsed |-> 0, eval |-> evals[e] + 1,
                            seen |-> View(heap, ctx[target])]}
                   /\ raised' = [raised EXCEPT ![e] = FALSE]
                   /\ returned' = [returned EXCEPT ![e] = target]
                   /\ UNCHANGED <<heap, calls, status, ctx, payload, nextId>>
              ELSE /\ raised' = [raised EXCEPT ![e] = (b = "error")]
                   /\ returned' = [returned EXCEPT ![e] =
                          IF b = "error" THEN 0 ELSE target]
                   /\ UNCHANGED <<tasks, heap, calls, status, ctx, payload, nextId>>
    /\ UNCHANGED <<policy, delayArg, mutations, lost>>

\* apply_after(target) for the finished live action e.
ApplyAfter(e) ==
    /\ branch[e] = "pending"
    /\ Evaluate(e)

\* The hub runs a task of spawn_after once its delay has passed; what the
\* task raises stays in its green thread.
Fire(t) ==
    /\ t \in tasks
    /\ t.elapsed >= t.wait
    /\ nextId <= MaxExec
    /\ tasks' = tasks \ {t}
    /\ \E ok \in BOOLEAN : ReRunLiveAction(t.target, FALSE, t.elapsed, ok)
    /\ UNCHANGED <<policy, delayArg, branch, raised, mutations, returned,
                   evals, lost>>

\* A tenth of a second passes while a task waits.
Tick ==
    /\ \E t \in tasks : t.elapsed < t.wait
    /\ tasks' = {[t EXCEPT !.elapsed = t.elapsed + 1] : t \in tasks}
    /\ UNCHANGED <<policy, delayArg, heap, ctx, status, payload, branch,
                   raised, calls, nextId, mutations, returned, evals, lost>>

\* Another component writes an entry into one of the dicts of the context
\* of a live action that was retried or is a retry.
InRetry(e) == \E i \in 1..Len(calls) : calls[i].by = e \/ calls[i].child = e

MutateContext(e, s) ==
    /\ mutations < MaxMutations
    /\ status[e] # "absent"
    /\ InRetry(e)
    /\ Reach(heap, ctx[e], s) # NoAddr
    /\ heap[Reach(heap, ctx[e], s)]["note"].kind = "absent"
    /\ heap' = [heap EXCEPT ![Reach(heap, ctx[e], s)]["note"] = IntV(e)]
    /\ mutations' = mutations + 1
    /\ UNCHANGED <<policy, delayArg, ctx, status, payload, branch, raised,
                   tasks, calls, nextId, returned, evals, lost>>

Next ==
    \/ \E e \in Ids, st \in TerminalStatuses : Terminate(e, st)
    \/ \E e \in Ids : ApplyAfter(e)
    \/ \E t \in tasks : Fire(t)
    \/ Tick

Spec == Init /\ [][Next]_vars

\* A policy with a delay, in a process that keeps running: time passes
\* while a task waits, and the hub runs a task whose delay has passed.
InitDelayed ==
    /\ Init
    /\ policy.delay > 0
    /\ payload[Root] = [action |-> "core.local", parameters |-> "cmd=date"]

SpecFair ==
    /\ InitDelayed /\ [][Next]_vars
    /\ WF_vars(Tick)
    /\ WF_vars(\E t \in tasks : Fire(t))

\* The process stops and is started again while tasks wait: the tasks were
\* held by the hub of the process that stopped, the live actions are stored.
Crash ==
    /\ tasks # {}
    /\ tasks' = {}
    /\ lost' = lost \cup {t.target : t \in tasks}
    /\ UNCHANGED <<policy, delayArg, heap, ctx, status, payload, branch,
                   raised, calls, nextId, mutations, returned, evals>>

NextCrash ==
    \/ \E e \in Ids, st \in TerminalStatuses : Terminate(e, st)
    \/ \E e \in Ids : ApplyAfter(e)
    \/ \E t \in tasks : Fire(t)
    \/ Tick
    \/ Crash

SpecCrash == Init /\ [][NextCrash]_vars

\* While the task of live action e waits, its holder sets an entry of one
\* of the dicts of e's context: the task was given live_action_db itself,
\* the object apply_after was handed, not a copy of it.
WriteWhileWaiting(e, s, k, v) ==
    /\ mutations < MaxMutations
    /\ \E t \in tasks : t.target = e
    /\ Reach(heap, ctx[e], s) # NoAddr
    /\ heap[Reach(heap, ctx[e], s)][k] # v
    /\ heap' = [heap EXCEPT ![Reach(heap, ctx[e], s)][k] = v]
    /\ mutations' = mutations + 1
    /\ UNCHANGED <<policy, delayArg, ctx, status, payload, branch, raised,
                   tasks, calls, nextId, returned, evals, lost>>

NextWaiting ==
    \/ \E e \in Ids, st \in TerminalStatuses : Terminate(e, st)
    \/ \E e \in Ids : ApplyAfter(e)
    \/ \E t \in tasks : Fire(t)
    \/ Tick
    \/ \E e \in Ids, s \in Slots \ {"retry"} : WriteWhileWaiting(e, s, "note", IntV(e))
    \/ \E e \in Ids, n \in 0..MaxRetry :
          WriteWhileWaiting(e, "retry", "retry_count", IntV(n))

SpecWaiting == InitDelayed /\ [][NextWaiting]_vars

\* Two first executions under the one on-failure applicator, each with its
\* own context, action and parameters; the first may be a workflow step.
Second == 2

InitTwo ==
    /\ \E max_retry_count \in 0..MaxRetry, delay \in {NumDelay(0), NumDelay(1)} :
          /\ policy = NewApplicator(RetryOnPolicy.FAILURE, max_retry_count, delay)
          /\ delayArg = delay
    /\ \E par \in {"absent", "workflow"},
          pol \in [{Root, Second} ->
                     {s \in PolicyShapes : s.retry = (s.count >= 0) /\ ~s.other}] :
          heap = [x \in Addr |->
                     IF x[1] \in {Root, Second}
                     THEN RootContext(x[1], IF x[1] = Root THEN par ELSE "absent",
                                      pol[x[1]], FALSE)[x[2]]
                     ELSE EmptyDict]
    /\ ctx = [e \in Ids |-> IF e \in {Root, Second} THEN <<e, "top">> ELSE NoAddr]
    /\ status = [e \in Ids |-> IF e \in {Root, Second} THEN "requested" ELSE "absent"]
    /\ payload = [e \in Ids |->
                     IF e = Root THEN [action |-> "core.local", parameters |-> "cmd=date"]
                     ELSE IF e = Second
                     THEN [action |-> "core.remote", parameters |-> "hosts=h1"]
                     ELSE NoPayload]
    /\ branch = [e \in Ids |-> "pending"]
    /\ raised = [e \in Ids |-> FALSE]
    /\ tasks = {}
    /\ calls = <<>>
    /\ nextId = Second + 1
    /\ mutations = 0
    /\ returned = [e \in Ids |-> 0]
    /\ evals = [e \in Ids |-> 0]
    /\ lost = {}

SpecTwo == InitTwo /\ [][Next]_vars

\* The same program beside components that write into the contexts.
NextShared ==
    \/ \E e \in Ids, st \in TerminalStatuses : Terminate(e, st)
    \/ \E e \in Ids : ApplyAfter(e)
    \/ \E t \in tasks : Fire(t)
    \/ Tick
    \/ \E e \in Ids, s \in Slots : MutateContext(e, s)

\* First executions that can be retried, each with or without nested dicts
\* in its context, under an on-failure policy with and without a delay.
InitShared ==
    /\ Init
    /\ policy.retry_on = RetryOnPolicy.FAILURE
    /\ delayArg \in {NumDelay(0), NumDelay(1)}
    /\ payload[Root] = [action |-> "core.local", parameters |-> "cmd=date"]
    /\ \E par \in {"absent", "empty"}, extra \in BOOLEAN,
          pol \in {[policies |-> FALSE, other |-> FALSE, retry |-> FALSE, count |-> -1],
                   [policies |-> TRUE, other |-> TRUE, retry |-> TRUE, count |-> 0]} :
          \A s \in Slots : heap[<<Root, s>>] = RootContext(Root, par, pol, extra)[s]

SpecShared == InitShared /\ [][NextShared]_vars

\* apply_after is handed a live action it was handed before: nothing in
\* it remembers the first time.
ApplyAfterAgain(e) ==
    /\ branch[e] # "pending"
    /\ evals[e] < MaxEvals
    /\ Evaluate(e)

NextRepeated ==
    \/ \E st \in TerminalStatuses : Terminate(Root, st)
    \/ ApplyAfter(Root)
    \/ ApplyAfterAgain(Root)
    \/ \E t \in tasks : Fire(t)
    \/ Tick

\* First executions with no parent, with and without a retry record, under
\* an on-failure policy with and without a delay.
InitRepeated ==
    /\ Init
    /\ policy.retry_on = RetryOnPolicy.FAILURE
    /\ delayArg \in {NumDelay(0), NumDelay(1)}
    /\ payload[Root] = [action |-> "core.local", parameters |-> "cmd=date"]
    /\ \E pol \in {s \in PolicyShapes : s.retry = (s.count >= 0) /\ ~s.other} :
          \A s \in Slots : heap[<<Root, s>>] = RootContext(Root, "absent", pol, FALSE)[s]

\* The program when its caller hands it the first execution more than once;
\* the retries it creates are left running.
SpecRepeated == InitRepeated /\ [][NextRepeated]_vars

\* First executions whose context is not of the expected shape: a parent
\* that is no dict, policies or policies.retry that is None or no dict, a
\* retry_count that is None or a string; and one with none of these keys.
MalformedShapes == {"nothing", "parent_str", "policies_none", "policies_str",
                    "retry_none", "count_none", "count_str"}

MalformedContext(id, shape) ==
    LET bare == RootContext(id, "absent",
                    [policies |-> FALSE, other |-> FALSE, retry |-> FALSE,
                     count |-> -1], FALSE)
        full == RootContext(id, "absent",
                    [policies |-> TRUE, other |-> FALSE, retry |-> TRUE,
                     count |-> 0], FALSE)
    IN  CASE shape = "nothing" -> bare
          [] shape = "parent_str" -> [bare EXCEPT !["top"]["parent"] = StrV("abc")]
          [] shape = "policies_none" -> [bare EXCEPT !["top"]["policies"] = NoneV]
          [] shape = "policies_str" -> [bare EXCEPT !["top"]["policies"] = StrV("abc")]
          [] shape = "retry_none" -> [full EXCEPT !["policies"]["retry"] = NoneV,
                                                  !["retry"] = EmptyDict]
          [] shape = "count_none" -> [full EXCEPT !["retry"]["retry_count"] = NoneV]
          [] shape = "count_str" -> [full EXCEPT !["retry"]["retry_count"] = StrV("1")]

InitMalformed ==
    /\ \E retry_on \in {RetryOnPolicy.FAILURE, RetryOnPolicy.TIMEOUT},
          max_retry_count \in 0..MaxRetry,
          delay \in {NoneDelay} \cup {NumDelay(i) : i \in -1..MaxDelay} :
          /\ policy = NewApplicator(retry_on, max_retry_count, delay)
          /\ delayArg = delay
    /\ \E shape \in MalformedShapes :
          heap = [x \in Addr |-> IF x[1] = Root
                                 THEN MalformedContext(Root, shape)[x[2]]
                                 ELSE EmptyDict]
    /\ ctx = [e \in Ids |-> IF e = Root THEN <<Root, "top">> ELSE NoAddr]
    /\ status = [e \in Ids |-> IF e = Root THEN "requested" ELSE "absent"]
    /\ payload = [e \in Ids |-> IF e = Root
                                THEN [action |-> "core.local", parameters |-> "cmd=date"]
                                ELSE NoPayload]
    /\ branch = [e \in Ids |-> "pending"]
    /\ raised = [e \in Ids |-> FALSE]
    /\ tasks = {}
    /\ calls = <<>>
    /\ nextId = Root + 1
    /\ mutations = 0
    /\ returned = [e \in Ids |-> 0]
    /\ evals = [e \in Ids |-> 0]
    /\ lost = {}

SpecMalformed == InitMalformed /\ [][Next]_vars

\* ================================================================ claims
\* What the claims speak of, read off the state.
Evaluated(e) == branch[e] # "pending"
CallsBy(e) == {i \in 1..Len(calls) : calls[i].by = e}
TasksFor(e) == {t \in tasks : t.target = e}
\* apply_after submitted or scheduled a new execution for e
Resubmitted(e) == CallsBy(e) # {} \/ TasksFor(e) # {}
\* context.parent is present and non-empty (None is no parent)
ParentPresentNonEmpty(e) ==
    LET p == heap[ctx[e]]["parent"] IN
    /\ p.kind \notin {"absent", "none"}
    /\ p.kind = "ref" => ~IsEmptyDict(heap[p.ref])
\* context.policies.retry.retry_count, 0 when absent
StoredRetryCount(e) ==
    LET v == View(heap, ctx[e])["retry"]["retry_count"] IN
    IF v.kind = "int" THEN v.n ELSE 0
\* the executions the service created as retries of e
RetriesOf(e) ==
    {c \in Ids : /\ status[c] # "absent"
                 /\ View(heap, ctx[c])["retry"]["retried_liveaction_id"]
                        = StrV(ToString(e))}
TriggerMatches(e) ==
    \/ status[e] = "failed" /\ policy.retry_on = "failure"
    \/ status[e] = "timeout" /\ policy.retry_on = "timeout"
TriggerMismatches(e) ==
    \/ status[e] = "timeout" /\ policy.retry_on = "failure"
    \/ status[e] = "failed" /\ policy.retry_on = "timeout"

\* C2: one evaluation submits (or schedules) a new execution if and only
\* if context.parent is absent or empty, the status is failed or timeout,
\* retry_count + 1 <= max_retry_count and the status is the one retry_on
\* names; and then it makes exactly one submission, now or deferred, of
\* which one new execution comes (none if the service rejects it).
C2_DecisionTable ==
    \A e \in Ids : Evaluated(e) =>
        /\ Resubmitted(e) <=>
              /\ ~ParentPresentNonEmpty(e)
              /\ status[e] \in {"failed", "timeout"}
              /\ StoredRetryCount(e) + 1 <= policy.max_retry_count
              /\ TriggerMatches(e)
        /\ Resubmitted(e) => Cardinality(CallsBy(e)) + Cardinality(TasksFor(e)) = 1
        /\ Cardinality(RetriesOf(e))
              = Cardinality({i \in CallsBy(e) : calls[i].accepted})

\* a deferred retry has been submitted for an execution whose count was
\* one below the ceiling
C2_Witness ==
    \E i \in 1..Len(calls) :
        /\ ~calls[i].sync
        /\ calls[i].count.n + 1 = policy.max_retry_count
        /\ Evaluated(calls[i].by)

\* C3: an execution whose context.parent is present and non-empty ends in
\* the workflow-step skip whatever its status, retry count and policy, and
\* nothing is submitted or scheduled for it.
C3_WorkflowStepExclusion ==
    \A e \in Ids : Evaluated(e) /\ ParentPresentNonEmpty(e) =>
        /\ branch[e] = "workflow_step"
        /\ ~Resubmitted(e)
        /\ ~raised[e]

\* a failed workflow step below the ceiling under an on-failure policy
C3_Witness ==
    \E e \in Ids :
        /\ branch[e] = "workflow_step"
        /\ status[e] = "failed" /\ policy.retry_on = "failure"
        /\ StoredRetryCount(e) + 1 <= policy.max_retry_count

\* C4: an execution that is no workflow step and whose status is neither
\* failed nor timeout ends in the invalid-status skip and submits nothing,
\* also when retry_count + 1 > max_retry_count.
C4_StatusGate ==
    \A e \in Ids :
        Evaluated(e) /\ ~ParentPresentNonEmpty(e)
                     /\ status[e] \notin {"failed", "timeout"} =>
            /\ branch[e] = "invalid_status"
            /\ ~Resubmitted(e)
            /\ ~raised[e]

\* a canceled execution over the ceiling is reported as invalid status
C4_Witness ==
    \E e \in Ids :
        /\ branch[e] = "invalid_status"
        /\ status[e] = "canceled"
        /\ StoredRetryCount(e) + 1 > policy.max_retry_count

\* C5 as stated: an execution below the ceiling whose status is the other
\* one of failed and timeout than retry_on names is not resubmitted and
\* ends in the no-match outcome, not in an earlier skip.
C5_AsStated ==
    \A e \in Ids :
        Evaluated(e) /\ TriggerMismatches(e)
                     /\ StoredRetryCount(e) + 1 <= policy.max_retry_count =>
            /\ ~Resubmitted(e)
            /\ branch[e] = "no_match"

\* C5 amended: such an execution is never resubmitted, and it ends in the
\* no-match outcome when it is no workflow step.
C5_TriggerMatching ==
    \A e \in Ids :
        Evaluated(e) /\ TriggerMismatches(e)
                     /\ StoredRetryCount(e) + 1 <= policy.max_retry_count =>
            /\ ~Resubmitted(e)
            /\ ~raised[e]
            /\ ~ParentPresentNonEmpty(e) => branch[e] = "no_match"

\* a timed-out execution under an on-failure policy with a delay
C5_Witness ==
    \E e \in Ids :
        /\ branch[e] = "no_match"
        /\ status[e] = "timeout" /\ policy.retry_on = "failure"
        /\ policy.delay > 0

\* The lineage of the first execution: it and the retries of its members.
RECURSIVE LineageFrom(_, _)
LineageFrom(S, n) ==
    IF n = 0 THEN S
    ELSE LineageFrom(S \cup {calls[i].child : i \in
                        {j \in 1..Len(calls) : calls[j].by \in S /\ calls[j].accepted}},
                     n - 1)
Lineage == LineageFrom({Root}, MaxExec)
LineageCalls == {i \in 1..Len(calls) : calls[i].by \in Lineage}
LineageTasks == {t \in tasks : t.target \in Lineage}
\* every execution of the lineage has finished with the status retry_on
\* names and has been evaluated, and no deferred retry is waiting
LineageSettled ==
    /\ StoredRetryCount(Root) = 0
    /\ \A e \in Lineage : Evaluated(e) /\ TriggerMatches(e)
    /\ LineageTasks = {}
\* N retries were submitted and the N-th retried execution (the first
\* execution when N = 0) took the maximum-retries skip
ExactlyMaxRetries ==
    LET N == policy.max_retry_count IN
    /\ Cardinality(LineageCalls) = N
    /\ N = 0 => branch[Root] = "max_retries"
    /\ N > 0 => /\ calls[N].accepted
                /\ branch[calls[N].child] = "max_retries"

\* C1 as stated: a lineage submits at most max_retry_count retries, and
\* exactly that many, the last one ending in the maximum-retries skip, when
\* every execution of it finishes with the status retry_on names.
C1_AsStated ==
    /\ Cardinality(LineageCalls) + Cardinality(LineageTasks) <= policy.max_retry_count
    /\ LineageSettled => ExactlyMaxRetries

\* C1 amended: the same, the exact count for a lineage whose first
\* execution is no workflow step and whose submissions were all accepted.
C1_RetryCeiling ==
    /\ Cardinality(LineageCalls) + Cardinality(LineageTasks) <= policy.max_retry_count
    /\ ( /\ LineageSettled
         /\ ~ParentPresentNonEmpty(Root)
         /\ \A i \in LineageCalls : calls[i].accepted )
       => ExactlyMaxRetries

\* a lineage of two deferred retries has settled under max_retry_count 2
C1_Witness ==
    /\ LineageSettled
    /\ ~ParentPresentNonEmpty(Root)
    /\ policy.max_retry_count >= 2 /\ policy.delay > 0
    /\ Len(calls) = policy.max_retry_count
    /\ \A i \in LineageCalls : calls[i].accepted

\* C6: the context of every submitted retry holds, under policies.retry,
\* retry_count = the parent's retry_count + 1 (1 when the parent has
\* none), retried_liveaction_id = the parent's id and applied_policy = the
\* policy's reference, and the execution the service creates holds the same.
C6_RetryRecord ==
    \A i \in 1..Len(calls) :
        LET c == calls[i]
            stored == c.before["retry"]["retry_count"]
            parentCount == IF stored.kind = "int" THEN stored.n ELSE 0
            record == [EmptyDict EXCEPT
                          !["applied_policy"] = StrV(policy.policy_ref),
                          !["retry_count"] = IntV(parentCount + 1),
                          !["retried_liveaction_id"] = StrV(ToString(c.by))]
        IN  /\ c.view["retry"] = record
            /\ c.accepted => /\ View(heap, ctx[c.child])["retry"] = record
                             /\ StoredRetryCount(c.child) = StoredRetryCount(c.by) + 1

\* a chain of two retries: the first of an execution with no retry_count
C6_Witness ==
    /\ Len(calls) >= 2
    /\ calls[1].before["retry"]["retry_count"].kind = "absent"
    /\ calls[2].by = calls[1].child
    /\ calls[2].accepted
    /\ StoredRetryCount(calls[2].child) = 2

\* C7 as stated: every entry of the parent's context other than
\* policies.retry, those under policies included, is in the context of
\* the retry with the same value.
C7_AsStated ==
    \A i \in 1..Len(calls) :
        \A s \in Slots \ {"retry"} : \A k \in Keys :
            /\ ~(s = "policies" /\ k = "retry")
            /\ calls[i].before[s][k].kind # "absent"
            => calls[i].view[s][k] = calls[i].before[s][k]

\* C9 as stated: when the service rejects the new execution, the caller of
\* apply_after observes the failure, and nothing more is submitted for
\* that execution, with and without a delay.
C9_AsStated ==
    \A i \in 1..Len(calls) :
        ~calls[i].accepted =>
            /\ raised[calls[i].by]
            /\ CallsBy(calls[i].by) = {i}
            /\ TasksFor(calls[i].by) = {}

C8_NoSharedDict ==
    \A i \in 1..Len(calls) :
        calls[i].accepted =>
            Cells(heap, ctx[calls[i].by]) \cap Cells(heap, ctx[calls[i].child]) = {}

\* a write into a dict of the context of a retry, or of its parent, leaves
\* the value of the other's context as it was
C8_WriteStaysLocal ==
    \A e \in Ids, s \in Slots :
        MutateContext(e, s) =>
            \A i \in 1..Len(calls) :
                calls[i].accepted /\ e \in {calls[i].by, calls[i].child} =>
                    \A o \in {calls[i].by, calls[i].child} \ {e} :
                        View(heap', ctx'[o]) = View(heap, ctx[o])

\* C8: once a retry is created, its context and its parent's share no dict
\* at any depth, so a later write into one of them (its policies.retry map
\* included) does not change the other, either way round.
C8_ContextIsolation == []C8_NoSharedDict /\ [][C8_WriteStaysLocal]_vars

\* the nested dict the retry's context copied from its parent was written
\* to, and the parent's one was not; and the other way round
C8_Witness ==
    \E i \in 1..Len(calls) :
        LET p == Reach(heap, ctx[calls[i].by], "extra")
            c == Reach(heap, ctx[calls[i].child], "extra")
        IN  /\ calls[i].accepted
            /\ p # NoAddr /\ c # NoAddr
            /\ heap[c]["note"].kind # "absent"
            /\ heap[p]["note"].kind = "absent"

\* C11: with a delay D > 0, apply_after has returned its target, without an
\* error, while the retry it scheduled is still waiting and nothing was
\* submitted; every submit call is made by the deferred task, not inside
\* apply_after, and no earlier than D after the retry was scheduled.
C11_DelayedSubmission ==
    policy.delay > 0 =>
        /\ \A t \in tasks :
              /\ returned[t.target] = t.target
              /\ ~raised[t.target]
              /\ CallsBy(t.target) = {}
        /\ \A i \in 1..Len(calls) :
              /\ ~calls[i].sync
              /\ calls[i].waited >= policy.delay
              /\ returned[calls[i].by] = calls[i].by

\* a retry scheduled with a delay of more than 0.1 s was submitted by its
\* task once the delay had passed
C11_Witness ==
    /\ policy.delay > SmallDelay
    /\ \E i \in 1..Len(calls) :
          /\ ~calls[i].sync
          /\ calls[i].waited = policy.delay
          /\ returned[calls[i].by] = calls[i].by

\* C12: whatever the shape of the context, a parent, policies,
\* policies.retry or retry_count that is absent, None or of another type,
\* apply_after raises nothing on its way to the decision: every evaluation
\* ends in one of the skip outcomes or in a retry.
C12_AsStated ==
    \A e \in Ids :
        Evaluated(e) =>
            /\ branch[e] \in Matched \cup {"workflow_step", "invalid_status",
                                           "max_retries", "no_match"}
            /\ returned[e] = e \/ (branch[e] \in Matched /\ CallsBy(e) # {})

\* an apply_after of live action e, or the task it scheduled running
HandledStep(e) == Evaluate(e) \/ \E t \in TasksFor(e) : Fire(t)

\* C13: in every branch of apply_after, and when a delayed retry fires, the
\* execution being evaluated is left as it was: its status, its context
\* (every dict of it), its action reference and its parameters; and what
\* apply_after returns is that same execution.
C13_OriginalUntouched ==
    [][\A e \in Ids :
          HandledStep(e) =>
              /\ status'[e] = status[e]
              /\ ctx'[e] = ctx[e]
              /\ \A a \in Cells(heap, ctx[e]) : heap'[a] = heap[a]
              /\ View(heap', ctx'[e]) = View(heap, ctx[e])
              /\ payload'[e] = payload[e]
              /\ Evaluate(e) /\ ~raised'[e] => returned'[e] = e]_vars

\* a live action that holds a retry record and another policy's entry was
\* retried after a delay, apply_after returned it, and its context is what
\* it was before
C13_Witness ==
    \E i \in 1..Len(calls) :
        LET e == calls[i].by IN
        /\ ~calls[i].sync /\ calls[i].accepted
        /\ returned[e] = e
        /\ calls[i].before["policies"]["other"].kind = "int"
        /\ calls[i].before["retry"]["retry_count"].kind = "int"
        /\ View(heap, ctx[e]) = calls[i].before
        /\ calls[i].view # calls[i].before

\* C14: every request the policy makes carries the action reference and
\* the parameters of the execution it retries, as they are, and the context
\* just built for it, and nothing else; the execution the service creates
\* from it has that action, those parameters and that context.
C14_PayloadForwarded ==
    \A i \in 1..Len(calls) :
        LET e == calls[i].by
            r == calls[i].request
        IN  /\ DOMAIN r = {"action", "parameters", "context"}
            /\ r.action = payload[e].action
            /\ r.parameters = payload[e].parameters
            /\ r.context # ctx[e]
            /\ calls[i].accepted =>
                  /\ View(heap, r.context) = calls[i].view
                  /\ payload[calls[i].child] =
                         [action |-> payload[e].action,
                          parameters |-> payload[e].parameters]
                  /\ ctx[calls[i].child] = r.context

\* the retry of a retry was created, with the action and the parameters of
\* the first execution
C14_Witness ==
    \E i \in 1..Len(calls) :
        /\ calls[i].by # Root
        /\ calls[i].accepted
        /\ payload[calls[i].child] = payload[Root]
        /\ payload[Root].parameters = "hosts=h1"

\* e is terminal with a retriable status the policy reacts to, has no
\* parent and is below the ceiling
Eligible(e) ==
    /\ status[e] \in {"failed", "timeout"}
    /\ ~ParentPresentNonEmpty(e)
    /\ StoredRetryCount(e) < policy.max_retry_count
    /\ TriggerMatches(e)

\* C15: nothing keeps an execution from being retried twice.  Every
\* evaluation of an eligible execution submits (or has scheduled) a retry
\* of its own, so after two evaluations there are two; all of them were
\* built from the same count read, and carry the same retry_count, the
\* parent's count plus one, and the same retried_liveaction_id.
C15_DuplicateRetries ==
    \A e \in Ids :
        /\ Eligible(e) =>
              Cardinality(CallsBy(e)) + Cardinality(TasksFor(e)) = evals[e]
        /\ ~Eligible(e) => ~Resubmitted(e)
        /\ \A i \in CallsBy(e) :
              /\ calls[i].count = IntV(StoredRetryCount(e))
              /\ calls[i].view["retry"]["retry_count"] =
                     IntV(StoredRetryCount(e) + 1)
              /\ calls[i].view["retry"]["retried_liveaction_id"] =
                     StrV(ToString(e))

\* one execution was evaluated twice and has two retries, each an execution
\* of its own, with the same retry record
C15_Witness ==
    \E e \in Ids : \E i, j \in CallsBy(e) :
        /\ evals[e] = 2
        /\ i # j
        /\ calls[i].accepted /\ calls[j].accepted
        /\ calls[i].child # calls[j].child
        /\ View(heap, ctx[calls[i].child])["retry"] =
              View(heap, ctx[calls[j].child])["retry"]
        /\ View(heap, ctx[calls[i].child])["retry"]["retry_count"] =
              IntV(StoredRetryCount(e) + 1)

\* the task scheduled for e is gone
TaskEnds(e) == TasksFor(e) # {} /\ TasksFor(e)' = {}

\* C16: a retry scheduled with a delay is always carried out, once.  A task
\* leaves the schedule only by making its submit call; while the process
\* keeps running the call is eventually made; and one evaluation never
\* leads to more than one call.
C16_ScheduledRetryFires ==
    /\ \A e \in Ids : (TasksFor(e) # {}) ~> (CallsBy(e) # {})
    /\ [][\A e \in Ids :
            TaskEnds(e) => Cardinality(CallsBy(e)') = Cardinality(CallsBy(e)) + 1]_vars
    /\ [](\A e \in Ids : Cardinality(CallsBy(e)) + Cardinality(TasksFor(e)) <= 1)

\* the task of a scheduled retry has run and made the one call of its
\* execution; nothing is left waiting
C16_Witness ==
    /\ tasks = {}
    /\ \E e \in Ids :
          /\ branch[e] \in Matched
          /\ Cardinality(CallsBy(e)) = 1
          /\ \A i \in CallsBy(e) : ~calls[i].sync /\ calls[i].waited > 0

CountIn(v) ==
    IF v["retry"]["retry_count"].kind = "int"
    THEN v["retry"]["retry_count"].n ELSE 0

\* C18: the retry a task submits is built from the context its execution
\* had when apply_after checked the ceiling and scheduled it, whatever was
\* written to that context while the task waited: the count it increments
\* is the count that was checked, and the entries it copies are the entries
\* of then.
C18_AsStated ==
    [][\A t \in tasks :
          Fire(t) /\ Len(calls') > Len(calls) =>
              LET c == calls'[Len(calls')] IN
              /\ c.count = IntV(CountIn(t.seen))
              /\ c.view["retry"]["retry_count"] = IntV(CountIn(t.seen) + 1)
              /\ \A s \in {"top", "parent", "extra"} :
                    \A k \in Keys \ {"policies"} : c.view[s][k] = t.seen[s][k]]_vars

\* C19: the applicator's trigger, ceiling and delay never change, and it
\* keeps nothing from one evaluation to the next: however the evaluations
\* of different executions and their waiting retries interleave, each
\* execution is retried exactly when its own status, parent and count make
\* it eligible, and the request made for it is made of its own action,
\* parameters and context and its own count plus one.
C19_Independent ==
    /\ [][policy' = policy]_vars
    /\ [](\A e \in Ids : Evaluated(e) => (Resubmitted(e) <=> Eligible(e)))
    /\ [](\A i \in 1..Len(calls) :
            LET e == calls[i].by
                own == View(heap, ctx[e])
            IN  /\ calls[i].request.action = payload[e].action
                /\ calls[i].request.parameters = payload[e].parameters
                /\ \A s \in {"top", "parent", "extra"} :
                      \A k \in Keys \ {"policies"} : calls[i].view[s][k] = own[s][k]
                /\ calls[i].view["retry"] =
                      [EmptyDict EXCEPT
                          !["applied_policy"] = StrV(policy.policy_ref),
                          !["retry_count"] = IntV(StoredRetryCount(e) + 1),
                          !["retried_liveaction_id"] = StrV(ToString(e))])

\* under a policy with a delay, the retry of one execution was submitted
\* while the retry of another, with a different count, waits, each with its
\* own count plus one
C19_Witness ==
    \E j \in 1..Len(calls) : \E t \in tasks :
        /\ t.target = Root /\ t.elapsed = t.wait
        /\ calls[j].by = Second /\ ~calls[j].sync /\ calls[j].accepted
        /\ StoredRetryCount(Root) # StoredRetryCount(Second)
        /\ calls[j].view["retry"]["retry_count"] = IntV(StoredRetryCount(Second) + 1)
        /\ payload[calls[j].child] = payload[Second]
        /\ payload[Second] # payload[Root]

\* C20: every request the policy has made, at once or after a delay, and
\* every execution created from one, carries a retry_count that is an
\* integer from 1 to max_retry_count.
C20_BoundedRetryCount ==
    /\ \A i \in 1..Len(calls) :
          LET rc == calls[i].view["retry"]["retry_count"] IN
          /\ rc.kind = "int"
          /\ 1 <= rc.n /\ rc.n <= policy.max_retry_count
    /\ \A i \in 1..Len(calls) :
          calls[i].accepted =>
              LET rc == View(heap, ctx[calls[i].child])["retry"]["retry_count"] IN
              /\ rc.kind = "int"
              /\ 1 <= rc.n /\ rc.n <= policy.max_retry_count

\* the last retry a ceiling of 2 or more allows was submitted after a delay
\* and created
C20_Witness ==
    \E i \in 1..Len(calls) :
        /\ ~calls[i].sync /\ calls[i].accepted
        /\ policy.max_retry_count > 1
        /\ View(heap, ctx[calls[i].child])["retry"]["retry_count"] =
              IntV(policy.max_retry_count)

====
